---- MODULE Spec2Model ----
(***************************************************************************)
(* A model of src/App.jsx of the Student-Database dashboard: the four      *)
(* datasets loaded by App.loadAll, the UI state of App, the window-level   *)
(* grades accessor installed by exposeGradesGlobally, and the values each  *)
(* render derives: filteredStudents, calcGPAForStudent,                    *)
(* calculateEnrollmentByMajor and CourseAttendance.                        *)
(*                                                                         *)
(* A JavaScript string is a sequence of one-character strings, so that     *)
(* trim, toLowerCase, toUpperCase, includes and the array-index test of    *)
(* property keys are computed on the characters.  The JavaScript value     *)
(* `undefined` (a field a CSV row does not have) is the value Undefined.   *)
(***************************************************************************)
EXTENDS Integers, Sequences, FiniteSets, TLC

VARIABLES
    students, courses, grades, attendance,      \* useState arrays of App
    selectedStudent, selectedCourse, search,    \* useState selections of App
    loading,                                    \* useState(true)
    internal_grades_for_app,                    \* window.__internal_grades_for_app
    fetched,                                    \* the four parseCSV promises
    loadPc,                                     \* where loadAll stands
    filteredStudents, enrollmentData,           \* the two useMemo values
    tableGpa,                                   \* GPA cell of every table row
    detailView,                                 \* what StudentDetail rendered
    courseView                                  \* what CourseAttendance rendered

vars == <<students, courses, grades, attendance, selectedStudent, selectedCourse,
          search, loading, internal_grades_for_app, fetched, loadPc,
          filteredStudents, enrollmentData, tableGpa, detailView, courseView>>

(***************************************************************************)
(* JavaScript values and string primitives                                 *)
(***************************************************************************)
Undefined == <<"undefined">>

Null == <<"null">>

\* ToBoolean of a string-or-undefined value: undefined, null and "" are falsy
Truthy(v) == v # Undefined /\ v # Null /\ v # <<>>

\* v || ""
OrEmpty(v) == IF Truthy(v) THEN v ELSE <<>>

\* the characters String.prototype.trim removes, among those the model uses
WhiteSpace == {" ", "\t", "\n"}

UpperLetters ==
    <<"A", "B", "C", "D", "E", "F", "G", "H", "I", "J", "K", "L", "M",
      "N", "O", "P", "Q", "R", "S", "T", "U", "V", "W", "X", "Y", "Z">>

LowerLetters ==
    <<"a", "b", "c", "d", "e", "f", "g", "h", "i", "j", "k", "l", "m",
      "n", "o", "p", "q", "r", "s", "t", "u", "v", "w", "x", "y", "z">>

LowerChar(c) ==
    IF \E i \in DOMAIN UpperLetters : UpperLetters[i] = c
    THEN LowerLetters[CHOOSE i \in DOMAIN UpperLetters : UpperLetters[i] = c]
    ELSE c

UpperChar(c) ==
    IF \E i \in DOMAIN LowerLetters : LowerLetters[i] = c
    THEN UpperLetters[CHOOSE i \in DOMAIN LowerLetters : LowerLetters[i] = c]
    ELSE c

\* String.prototype.toLowerCase
toLowerCase(s) == [i \in DOMAIN s |-> LowerChar(s[i])]

\* String.prototype.toUpperCase
toUpperCase(s) == [i \in DOMAIN s |-> UpperChar(s[i])]

RECURSIVE trimStart(_)
trimStart(s) ==
    IF s # <<>> /\ Head(s) \in WhiteSpace THEN trimStart(Tail(s)) ELSE s

RECURSIVE trimEnd(_)
trimEnd(s) ==
    IF s # <<>> /\ s[Len(s)] \in WhiteSpace
    THEN trimEnd(SubSeq(s, 1, Len(s) - 1))
    ELSE s

\* String.prototype.trim
trim(s) == trimEnd(trimStart(s))

\* String.prototype.includes: needle occurs at some position of hay
includes(hay, needle) ==
    \E i \in 0..(Len(hay) - Len(needle)) : SubSeq(hay, i + 1, i + Len(needle)) = needle

(***************************************************************************)
(* Properties every plain object inherits from Object.prototype: what      *)
(* `key in obj` and `obj[key]` find when obj has no own property `key`.    *)
(***************************************************************************)
ObjectPrototypeKeys ==
    { <<"c","o","n","s","t","r","u","c","t","o","r">>,
      <<"t","o","S","t","r","i","n","g">>,
      <<"v","a","l","u","e","O","f">>,
      <<"_","_","p","r","o","t","o","_","_">> }

(***************************************************************************)
(* GPA: gradePoints and calcGPAForStudent                                  *)
(***************************************************************************)
gradePointKeys == { <<"A">>, <<"B">>, <<"C">>, <<"D">>, <<"F">> }

\* const gradePoints = { A: 4.0, B: 3.0, C: 2.0, D: 1.0, F: 0.0 }
gradePoints ==
    [k \in gradePointKeys |->
        CASE k = <<"A">> -> 4
          [] k = <<"B">> -> 3
          [] k = <<"C">> -> 2
          [] k = <<"D">> -> 1
          [] k = <<"F">> -> 0]

\* letter in gradePoints: own keys and the inherited ones
InGradePoints(letter) == letter \in gradePointKeys \cup ObjectPrototypeKeys

\* number of bits of the significand of a JavaScript number (IEEE 754 binary64)
SignificandBits == 53

\* number of binary digits of the natural number n (0 for n = 0); n <= 7 here
BitLength(n) == IF n = 0 THEN 0 ELSE IF n = 1 THEN 1 ELSE IF n < 4 THEN 2 ELSE 3

(***************************************************************************)
(* The sign of  fl(t / c) - t / c,  where fl(t / c) is the JavaScript      *)
(* number that t / c evaluates to: the quotient's binary expansion is      *)
(* produced digit by digit (rem is the remainder so far, sig the number    *)
(* of significant digits produced, last the latest digit) and rounded to   *)
(* nearest, ties to even, after SignificandBits digits.                    *)
(***************************************************************************)
RECURSIVE QuotientRounding(_, _, _, _)
QuotientRounding(rem, c, sig, last) ==
    IF rem = 0 THEN 0
    ELSE IF sig = SignificandBits
    THEN IF 2 * rem < c THEN -1
         ELSE IF 2 * rem > c THEN 1
         ELSE IF last = 0 THEN -1 ELSE 1
    ELSE LET bit == (2 * rem) \div c
             sigNext == IF sig > 0 \/ bit = 1 THEN sig + 1 ELSE 0
         IN  QuotientRounding((2 * rem) % c, c, sigNext, bit)

DivisionError(t, c) == QuotientRounding(t % c, c, BitLength(t \div c), (t \div c) % 2)

(***************************************************************************)
(* +(t / c).toFixed(2), in hundredths.  toFixed(2) picks the integer n     *)
(* for which n / 100 is closest to the number x = fl(t / c), the larger n  *)
(* when two are equally close.  Unless t / c lies exactly halfway between  *)
(* two hundredths it is at least 1 / (200 c) away from the halfway point,  *)
(* far more than x is from t / c, so x rounds as t / c does; at a halfway  *)
(* point the side on which x fell decides.                                 *)
(***************************************************************************)
QuotientToFixed2(t, c) ==
    LET n == (100 * t) \div c
        r == (100 * t) % c
    IN  IF 2 * r < c THEN n
        ELSE IF 2 * r > c THEN n + 1
        ELSE IF DivisionError(t, c) >= 0 THEN n + 1 ELSE n

GpaNull == [isNull |-> TRUE, hundredths |-> 0]

GpaNumber(h) == [isNull |-> FALSE, hundredths |-> h]

\* GradeLetter without its toUpperCase()
GradeLetter_NoUpperCase(r) == OrEmpty(r.grade)

\* const letter = (r.grade || "").toUpperCase()
GradeLetter(r) == toUpperCase(OrEmpty(r.grade))

\* the for loop of calcGPAForStudent over recs[i..]
RECURSIVE GpaLoop(_, _, _, _)
GpaLoop(recs, i, totalPoints, count) ==
    IF i > Len(recs)
    THEN IF count = 0 THEN GpaNull ELSE GpaNumber(QuotientToFixed2(totalPoints, count))
    ELSE LET letter == GradeLetter(recs[i])
         IN  IF InGradePoints(letter)
             THEN GpaLoop(recs, i + 1, totalPoints + gradePoints[letter], count + 1)
             ELSE GpaLoop(recs, i + 1, totalPoints, count)

calcGPAForStudent(studentId, gradeList) ==
    LET recs == SelectSeq(gradeList, LAMBDA g : g.student_id = studentId)
    IN  IF Len(recs) = 0 THEN GpaNull ELSE GpaLoop(recs, 1, 0, 0)

(***************************************************************************)
(* A plain JavaScript object used as a map, as calculateEnrollmentByMajor  *)
(* uses `map`.  Own properties are kept the way the language orders them:  *)
(* keys that are array indices (canonical decimal numbers below 2^32 - 1)  *)
(* in ascending numeric order (elements), then the other string keys in    *)
(* the order they were created (properties).                               *)
(* A property value is a number or a string:                               *)
(*   [type |-> "number", n |-> 3, text |-> <<>>]                           *)
(*   [type |-> "string", n |-> 0, text |-> the characters]                 *)
(***************************************************************************)
Digits == <<"0", "1", "2", "3", "4", "5", "6", "7", "8", "9">>

IsDigit(c) == \E i \in DOMAIN Digits : Digits[i] = c

DigitValue(c) == (CHOOSE i \in DOMAIN Digits : Digits[i] = c) - 1

\* a < b for two canonical decimal numerals
NumeralLess(a, b) ==
    \/ Len(a) < Len(b)
    \/ /\ Len(a) = Len(b)
       /\ \E i \in DOMAIN a :
            /\ DigitValue(a[i]) < DigitValue(b[i])
            /\ \A j \in 1..(i - 1) : a[j] = b[j]

\* 2^32 - 2, the largest array index
MaxArrayIndex == <<"4", "2", "9", "4", "9", "6", "7", "2", "9", "4">>

IsArrayIndex(k) ==
    /\ Len(k) >= 1
    /\ \A i \in DOMAIN k : IsDigit(k[i])
    /\ (Len(k) = 1 \/ k[1] # "0")
    /\ ~NumeralLess(MaxArrayIndex, k)

NumberValue(n) == [type |-> "number", n |-> n, text |-> <<>>]

StringValue(t) == [type |-> "string", n |-> 0, text |-> t]

EmptyObject == [elements |-> <<>>, properties |-> <<>>]

OwnEntries(obj) == obj.elements \o obj.properties

HasOwn(obj, k) == \E i \in DOMAIN OwnEntries(obj) : OwnEntries(obj)[i].key = k

OwnValue(obj, k) ==
    OwnEntries(obj)[CHOOSE i \in DOMAIN OwnEntries(obj) : OwnEntries(obj)[i].key = k].value

\* String(Object.prototype[k]): the text of an inherited property, one token
\* standing for the characters of the engine's rendering
InheritedText(k) ==
    IF k = <<"_","_","p","r","o","t","o","_","_">>
    THEN <<"[object Object]">>
    ELSE IF k = <<"c","o","n","s","t","r","u","c","t","o","r">>
    THEN <<"function Object() { [native code] }">>
    ELSE <<"function ">> \o k \o <<"() { [native code] }">>

(***************************************************************************)
(* (obj[k] || 0) + 1                                                       *)
(*   own number n (never 0 here)   -> n + 1                                *)
(*   own string s (never empty)    -> s + "1"                              *)
(*   inherited function or object  -> its text + "1"                       *)
(*   no such property (undefined)  -> 0 + 1                                *)
(***************************************************************************)
OrZeroPlusOne(obj, k) ==
    IF HasOwn(obj, k)
    THEN LET v == OwnValue(obj, k)
         IN  IF v.type = "number"
             THEN (IF v.n # 0 THEN NumberValue(v.n + 1) ELSE NumberValue(1))
             ELSE (IF v.text # <<>> THEN StringValue(v.text \o <<"1">>) ELSE NumberValue(1))
    ELSE IF k \in ObjectPrototypeKeys
    THEN StringValue(InheritedText(k) \o <<"1">>)
    ELSE NumberValue(1)

UpdateEntry(entries, k, v) ==
    [i \in DOMAIN entries |->
        IF entries[i].key = k THEN [key |-> k, value |-> v] ELSE entries[i]]

\* a new array-index key goes to its numeric place among the elements
InsertElement(elements, k, v) ==
    LET below == SelectSeq(elements, LAMBDA e : NumeralLess(e.key, k))
        above == SelectSeq(elements, LAMBDA e : ~NumeralLess(e.key, k))
    IN  below \o <<[key |-> k, value |-> v]>> \o above

(***************************************************************************)
(* obj[k] = v.  Assigning to "__proto__" runs the accessor inherited from  *)
(* Object.prototype, which ignores a value that is neither an object nor   *)
(* null: no own property is created.                                       *)
(***************************************************************************)
SetProperty(obj, k, v) ==
    IF HasOwn(obj, k)
    THEN [elements   |-> UpdateEntry(obj.elements, k, v),
          properties |-> UpdateEntry(obj.properties, k, v)]
    ELSE IF k = <<"_","_","p","r","o","t","o","_","_">>
    THEN obj
    ELSE IF IsArrayIndex(k)
    THEN [obj EXCEPT !.elements = InsertElement(obj.elements, k, v)]
    ELSE [obj EXCEPT !.properties = Append(obj.properties, [key |-> k, value |-> v])]

Undeclared == <<"U","n","d","e","c","l","a","r","e","d">>

\* const m = s.major || "Undeclared"
MajorKey(s) == IF Truthy(s.major) THEN s.major ELSE Undeclared

\* the for loop of calculateEnrollmentByMajor over studentList[i..]
RECURSIVE MajorLoop(_, _, _)
MajorLoop(studentList, i, map) ==
    IF i > Len(studentList) THEN map
    ELSE LET m == MajorKey(studentList[i])
         IN  MajorLoop(studentList, i + 1, SetProperty(map, m, OrZeroPlusOne(map, m)))

\* Object.entries(map).map(([major, count]) => ({ major, count }))
calculateEnrollmentByMajor(studentList) ==
    LET entries == OwnEntries(MajorLoop(studentList, 1, EmptyObject))
    IN  [i \in DOMAIN entries |-> [major |-> entries[i].key, count |-> entries[i].value]]

(***************************************************************************)
(* Search: the filteredStudents memo of App                                *)
(***************************************************************************)
\* FilterStudents without the trim() of the search text
FilterStudents_NoTrim(studentList, searchText) ==
    LET q == toLowerCase(searchText)
    IN  IF q = <<>> THEN studentList
        ELSE SelectSeq(studentList,
                LAMBDA s : \/ includes(toLowerCase(s.student_id), q)
                           \/ includes(toLowerCase(OrEmpty(s.name)), q))

FilterStudents(studentList, searchText) ==
    LET q == toLowerCase(trim(searchText))
    IN  IF q = <<>> THEN studentList
        ELSE SelectSeq(studentList,
                LAMBDA s : \/ includes(toLowerCase(s.student_id), q)
                           \/ includes(toLowerCase(OrEmpty(s.name)), q))

(***************************************************************************)
(* The window-level grades accessor of exposeGradesGlobally.               *)
(* window.__internal_grades_for_app is <<>> while never assigned and       *)
(* <<v>> once the array v has been assigned to it.                         *)
(***************************************************************************)
\* get() { return window.__internal_grades_for_app || []; }
GradesForAppGet(internal) == IF internal = <<>> THEN <<>> ELSE internal[1]

\* set(v) { window.__internal_grades_for_app = v; }
GradesForAppSet(v) == <<v>>

(***************************************************************************)
(* CourseAttendance                                                        *)
(***************************************************************************)
\* for (const g of globalGrades) if (g.course_code === courseCode) add g.student_id
EnrolledStudentIds(globalGrades, courseCode) ==
    { globalGrades[i].student_id :
        i \in { j \in DOMAIN globalGrades : globalGrades[j].course_code = courseCode } }

\* StatusBucket without the trim() of the status
StatusBucket_NoTrim(a) ==
    LET st == OrEmpty(a.attendance_status)
    IN  IF toLowerCase(st) = <<"p","r","e","s","e","n","t">> THEN "Present"
        ELSE IF toLowerCase(st) = <<"a","b","s","e","n","t">> THEN "Absent"
        ELSE "Other"

\* the bucket one attendance record adds 1 to
StatusBucket(a) ==
    LET st == trim(OrEmpty(a.attendance_status))
    IN  IF toLowerCase(st) = <<"p","r","e","s","e","n","t">> THEN "Present"
        ELSE IF toLowerCase(st) = <<"a","b","s","e","n","t">> THEN "Absent"
        ELSE "Other"

\* AttendanceLoop without its `continue` for students not enrolled
RECURSIVE AttendanceLoop_NoSkip(_, _, _, _)
AttendanceLoop_NoSkip(attendanceList, i, enrolledIds, stats) ==
    IF i > Len(attendanceList) THEN stats
    ELSE LET b == StatusBucket(attendanceList[i])
         IN  AttendanceLoop_NoSkip(attendanceList, i + 1, enrolledIds,
                                   [stats EXCEPT ![b] = stats[b] + 1])

\* the for loop of CourseAttendance over attendanceList[i..]
RECURSIVE AttendanceLoop(_, _, _, _)
AttendanceLoop(attendanceList, i, enrolledIds, stats) ==
    IF i > Len(attendanceList) THEN stats
    ELSE IF attendanceList[i].student_id \notin enrolledIds
    THEN AttendanceLoop(attendanceList, i + 1, enrolledIds, stats)
    ELSE LET b == StatusBucket(attendanceList[i])
         IN  AttendanceLoop(attendanceList, i + 1, enrolledIds,
                            [stats EXCEPT ![b] = stats[b] + 1])

\* rows of the "Sample of enrolled students" table
SampleRows == 10

CourseAttendance(courseCode, attendanceList, studentList, internal) ==
    LET globalGrades == GradesForAppGet(internal)
        enrolledStudentIds == EnrolledStudentIds(globalGrades, courseCode)
        enrolled == SelectSeq(studentList, LAMBDA s : s.student_id \in enrolledStudentIds)
        stats == AttendanceLoop(attendanceList, 1, enrolledStudentIds,
                                [Present |-> 0, Absent |-> 0, Other |-> 0])
    IN  [courseCode |-> courseCode, attendance |-> attendanceList, students |-> studentList,
         enrolledStudentIds |-> enrolledStudentIds,
         enrolled |-> enrolled,
         stats |-> stats,
         total |-> stats.Present + stats.Absent + stats.Other,
         sample |-> SubSeq(enrolled, 1, IF Len(enrolled) < SampleRows
                                        THEN Len(enrolled) ELSE SampleRows)]

(***************************************************************************)
(* StudentDetail: the selected student's grade rows and GPA                *)
(***************************************************************************)
StudentDetail(student, gradeList) ==
    [student_id |-> student.student_id,
     sGrades |-> SelectSeq(gradeList, LAMBDA g : g.student_id = student.student_id),
     gpa |-> calcGPAForStudent(student.student_id, gradeList)]

(***************************************************************************)
(* What one render of App derives from the state it is given.  The two     *)
(* memos are computed before the `if (loading)` return; the table, the     *)
(* StudentDetail and the CourseAttendance exist only when loading is off.  *)
(***************************************************************************)
\* rows the student table shows
TableRows == 200

RenderTableGpa(filtered, gradeList, isLoading) ==
    IF isLoading THEN <<>>
    ELSE [i \in 1..(IF Len(filtered) < TableRows THEN Len(filtered) ELSE TableRows) |->
            calcGPAForStudent(filtered[i].student_id, gradeList)]

RenderDetail(selStudent, gradeList, isLoading) ==
    IF isLoading \/ selStudent = <<>> THEN <<>>
    ELSE <<StudentDetail(selStudent[1], gradeList)>>

RenderCourse(selCourse, attendanceList, studentList, internal, isLoading) ==
    IF isLoading \/ ~Truthy(selCourse) THEN <<>>
    ELSE <<CourseAttendance(selCourse, attendanceList, studentList, internal)>>

Render ==
    /\ filteredStudents' = FilterStudents(students', search')
    /\ enrollmentData' = calculateEnrollmentByMajor(students')
    /\ tableGpa' = RenderTableGpa(filteredStudents', grades', loading')
    /\ detailView' = RenderDetail(selectedStudent', grades', loading')
    /\ courseView' = RenderCourse(selectedCourse', attendance', students',
                                  internal_grades_for_app', loading')

(***************************************************************************)
(* App.loadAll.  fetched[f] is the promise parseCSV(f) returned: pending,  *)
(* resolved with the rows Papa.parse produced, or rejected.  loadAll       *)
(* stands at its `await Promise.all(...)` (loadPc = "awaiting") until the  *)
(* four are resolved, or one is rejected and the catch handler runs.       *)
(***************************************************************************)
DataFiles == {"students", "courses", "grades", "attendance"}

Pending == [state |-> "pending", rows |-> <<>>]

Resolved(rows) == [state |-> "resolved", rows |-> rows]

Rejected == [state |-> "rejected", rows |-> <<>>]

\* r.f of a parsed row: undefined when the row has no such field
Field(r, f) == IF f \in DOMAIN r THEN r[f] ELSE Undefined

StudentOf(r) ==
    [student_id |-> Field(r, "student_id"), name |-> Field(r, "name"),
     major |-> Field(r, "major"), year |-> Field(r, "year")]

CourseOf(r) ==
    [course_code |-> Field(r, "course_code"), name |-> Field(r, "name"),
     instructor |-> Field(r, "instructor")]

GradeOf(r) ==
    [student_id |-> Field(r, "student_id"), course_code |-> Field(r, "course_code"),
     grade |-> Field(r, "grade")]

AttendanceOf(r) ==
    [student_id |-> Field(r, "student_id"), date |-> Field(r, "date"),
     attendance_status |-> Field(r, "attendance_status")]

\* the state after App's first render and the start of its effect
Constructed ==
    /\ students = <<>> /\ courses = <<>> /\ grades = <<>> /\ attendance = <<>>
    /\ selectedStudent = <<>>
    /\ selectedCourse = Null
    /\ search = <<>>
    /\ loading = TRUE
    /\ internal_grades_for_app = <<>>
    /\ loadPc = "awaiting"
    /\ filteredStudents = <<>>
    /\ enrollmentData = <<>>
    /\ tableGpa = <<>>
    /\ detailView = <<>>
    /\ courseView = <<>>

UiState == <<selectedStudent, selectedCourse, search>>

Datasets == <<students, courses, grades, attendance>>

Views == <<filteredStudents, enrollmentData, tableGpa, detailView, courseView>>

\* a pending parseCSV(f) resolves with rows
FetchResolve(f, rows) ==
    /\ fetched[f].state = "pending"
    /\ fetched' = [fetched EXCEPT ![f] = Resolved(rows)]
    /\ UNCHANGED <<Datasets, UiState, loading, internal_grades_for_app, loadPc, Views>>

\* a pending parseCSV(f) rejects (fetch, r.text() or Papa's error callback)
FetchReject(f) ==
    /\ fetched[f].state = "pending"
    /\ fetched' = [fetched EXCEPT ![f] = Rejected]
    /\ UNCHANGED <<Datasets, UiState, loading, internal_grades_for_app, loadPc, Views>>

\* Promise.all fulfilled: the rest of loadAll, then the render it causes
LoadAllResume ==
    /\ loadPc = "awaiting"
    /\ \A f \in DataFiles : fetched[f].state = "resolved"
    /\ students' = [i \in DOMAIN fetched["students"].rows |->
                        StudentOf(fetched["students"].rows[i])]
    /\ courses' = [i \in DOMAIN fetched["courses"].rows |->
                        CourseOf(fetched["courses"].rows[i])]
    /\ grades' = [i \in DOMAIN fetched["grades"].rows |->
                        GradeOf(fetched["grades"].rows[i])]
    /\ attendance' = [i \in DOMAIN fetched["attendance"].rows |->
                        AttendanceOf(fetched["attendance"].rows[i])]
    /\ loading' = FALSE
    /\ loadPc' = "done"
    /\ UNCHANGED <<UiState, internal_grades_for_app, fetched>>
    /\ Render

\* LoadAllCatch without its setLoading(false)
LoadAllCatch_NoSetLoading ==
    /\ loadPc = "awaiting"
    /\ \E f \in DataFiles : fetched[f].state = "rejected"
    /\ loadPc' = "failed"
    /\ UNCHANGED <<Datasets, UiState, loading, internal_grades_for_app, fetched, Views>>

\* Promise.all rejected: loadAll().catch(...)
LoadAllCatch ==
    /\ loadPc = "awaiting"
    /\ \E f \in DataFiles : fetched[f].state = "rejected"
    /\ loading' = FALSE
    /\ loadPc' = "failed"
    /\ UNCHANGED <<Datasets, UiState, internal_grades_for_app, fetched>>
    /\ Render

(***************************************************************************)
(* The handlers of the page, which exists once loading is off.  A handler  *)
(* that sets a state to the value it has causes no render.                 *)
(***************************************************************************)
\* onChange of the search box: the user made its text q
SetSearch(q) ==
    /\ ~loading
    /\ q # search
    /\ search' = q
    /\ UNCHANGED <<Datasets, selectedStudent, selectedCourse, loading,
                   internal_grades_for_app, fetched, loadPc>>
    /\ Render

\* onClick of Clear
ClearSearch ==
    /\ ~loading
    /\ search' = <<>>
    /\ UNCHANGED <<Datasets, selectedStudent, selectedCourse, loading,
                   internal_grades_for_app, fetched, loadPc>>
    /\ IF search = <<>> THEN UNCHANGED Views ELSE Render

\* onClick of row i of the table: setSelectedStudent(s).  student_id is the
\* key of a student, so an equal record is the same object and causes no render.
SelectStudent(i) ==
    /\ ~loading
    /\ i \in DOMAIN tableGpa
    /\ selectedStudent' = <<filteredStudents[i]>>
    /\ UNCHANGED <<Datasets, selectedCourse, search, loading,
                   internal_grades_for_app, fetched, loadPc>>
    /\ IF selectedStudent' = selectedStudent THEN UNCHANGED Views ELSE Render

\* the user clicks one of the rows the table shows
ClickRow == \E i \in DOMAIN tableGpa : SelectStudent(i)

\* the value the course <select> shows
ShownCourse == IF selectedCourse = Null THEN <<>> ELSE selectedCourse

\* onChange of the course <select>: the user picked the option with value v
SelectCourse(v) ==
    /\ ~loading
    /\ v \in {<<>>} \cup {courses[i].course_code : i \in DOMAIN courses}
    /\ v # ShownCourse
    /\ selectedCourse' = v
    /\ UNCHANGED <<Datasets, selectedStudent, search, loading,
                   internal_grades_for_app, fetched, loadPc>>
    /\ Render

\* a script of the page assigns v to window.__GRADES_FOR_APP; App does not
\* do it, and the assignment renders nothing
SetGradesForApp(v) ==
    /\ internal_grades_for_app' = GradesForAppSet(v)
    /\ UNCHANGED <<Datasets, UiState, loading, fetched, loadPc, Views>>

(***************************************************************************)
(* Inputs: rows as Papa.parse hands them over (header: true), every field  *)
(* a string; a row shorter than the header lacks its last fields.          *)
(***************************************************************************)
S1 == <<"S", "1">>

S2 == <<"s", "2">>

S3 == <<"S", "3">>

C1 == <<"C", "1">>

C2 == <<"C", "2">>

Day == <<"d">>

StudentRowsSample ==
    << [student_id |-> S1, name |-> <<"A","n","n">>, major |-> <<"C","S">>, year |-> <<"1">>],
       [student_id |-> S2, name |-> <<"B","o">>] >>

CourseRowsSample ==
    << [course_code |-> C1, name |-> <<"A","l","g">>, instructor |-> <<"K">>],
       [course_code |-> C2, name |-> <<"B","i","o">>, instructor |-> <<"L">>] >>

GradeRowsSample ==
    << [student_id |-> S1, course_code |-> C1, grade |-> <<"A">>],
       [student_id |-> S2, course_code |-> C1, grade |-> <<"b">>],
       [student_id |-> S1, course_code |-> C2, grade |-> <<"F">>] >>

AttendanceRowsSample ==
    << [student_id |-> S1, date |-> Day, attendance_status |-> <<"P","r","e","s","e","n","t">>],
       [student_id |-> S2, date |-> Day, attendance_status |-> <<"A","b","s","e","n","t">>],
       [student_id |-> S1, date |-> Day, attendance_status |-> <<"L","a","t","e">>] >>

\* what each file may parse to in the runs of Spec: no data row, or the sample
FileRows(f) ==
    CASE f = "students"   -> {<<>>, StudentRowsSample}
      [] f = "courses"    -> {<<>>, CourseRowsSample}
      [] f = "grades"     -> {<<>>, GradeRowsSample}
      [] f = "attendance" -> {<<>>, AttendanceRowsSample}

SearchSample == { <<"s">>, <<" ", "A", "N">> }

GradesForAppSample == { [i \in DOMAIN GradeRowsSample |-> GradeOf(GradeRowsSample[i])] }

(***************************************************************************)
(* Spec: the program from construction                                     *)
(***************************************************************************)
Init ==
    /\ Constructed
    /\ fetched = [f \in DataFiles |-> Pending]

Next ==
    \/ \E f \in DataFiles : \E rows \in FileRows(f) : FetchResolve(f, rows)
    \/ \E f \in DataFiles : FetchReject(f)
    \/ LoadAllResume
    \/ LoadAllCatch
    \/ \E q \in SearchSample : SetSearch(q)
    \/ ClearSearch
    \/ ClickRow
    \/ \E v \in {<<>>, C1, C2} : SelectCourse(v)
    \/ \E v \in GradesForAppSample : SetGradesForApp(v)

Spec == Init /\ [][Next]_vars

\* the continuation of a settled Promise.all is a queued microtask: it runs
LiveSpec == Spec /\ WF_vars(LoadAllResume) /\ WF_vars(LoadAllCatch)

(***************************************************************************)
(* C1 -- Course attendance, enrollment derivation: whenever                *)
(* CourseAttendance is rendered, the enrolled-student set it used is       *)
(* exactly the set of student_id values of the loaded grade records whose  *)
(* course_code is the selected course (so it is non-empty whenever such a  *)
(* grade record exists).                                                   *)
(***************************************************************************)
C1_EnrolledFromLoadedGrades ==
    courseView # <<>> =>
        courseView[1].enrolledStudentIds =
            { grades[i].student_id :
                i \in { j \in DOMAIN grades : grades[j].course_code = courseView[1].courseCode } }

(***************************************************************************)
(* C10 -- Load is all-or-nothing and always ends: while loadAll awaits,    *)
(* loading is on and the four datasets are empty; after a failed load the  *)
(* four datasets are still empty and loading is off; after a successful    *)
(* load each dataset holds the rows its own file resolved with and loading *)
(* is off; loading never comes back on; and once the four fetches have     *)
(* settled, loading eventually goes off.                                   *)
(***************************************************************************)
AllSettled == \A f \in DataFiles : fetched[f].state # "pending"

SameRows(dataset, f, keys) ==
    /\ Len(dataset) = Len(fetched[f].rows)
    /\ \A i \in DOMAIN dataset : \A k \in keys :
        dataset[i][k] = (IF k \in DOMAIN fetched[f].rows[i]
                         THEN fetched[f].rows[i][k] ELSE Undefined)

LoadOutcome ==
    /\ loadPc = "awaiting" =>
        loading /\ students = <<>> /\ courses = <<>> /\ grades = <<>> /\ attendance = <<>>
    /\ loadPc = "failed" =>
        ~loading /\ students = <<>> /\ courses = <<>> /\ grades = <<>> /\ attendance = <<>>
    /\ loadPc = "done" =>
        /\ ~loading
        /\ \A f \in DataFiles : fetched[f].state = "resolved"
        /\ SameRows(students, "students", {"student_id", "name", "major", "year"})
        /\ SameRows(courses, "courses", {"course_code", "name", "instructor"})
        /\ SameRows(grades, "grades", {"student_id", "course_code", "grade"})
        /\ SameRows(attendance, "attendance", {"student_id", "date", "attendance_status"})

C10_LoadAllOrNothing ==
    /\ []LoadOutcome
    /\ [][~loading => ~loading']_vars
    /\ (AllSettled ~> ~loading)

\* a load that failed although another file had resolved with data rows
C10_Witness ==
    /\ loadPc = "failed"
    /\ ~loading
    /\ \E f \in DataFiles : fetched[f].state = "resolved" /\ fetched[f].rows # <<>>
    /\ students = <<>> /\ grades = <<>>

(***************************************************************************)
(* SpecGPA: the four files have resolved; grades.csv holds either a short  *)
(* list of arbitrary rows or a long transcript of student S1.              *)
(***************************************************************************)
MaxGrades == 2

MaxTranscript == 40

\* grade fields: letters of both cases, an unknown letter, a padded letter, ""
GradeFields == { <<"A">>, <<"c">>, <<"F">>, <<"z">>, <<" ", "A">>, <<>> }

\* rows with a grade field, and rows cut short before it
GradeRowAlphabet ==
    { [student_id |-> id, course_code |-> C1, grade |-> g] : id \in {S1, S2}, g \in GradeFields }
    \cup { [student_id |-> id, course_code |-> C1] : id \in {S1, S2} }

ListsUpTo(alphabet, n) == UNION { [1..k -> alphabet] : k \in 0..n }

\* n rows of S1: the first k with grade g1, the others with grade g2
Transcript(n, k, g1, g2) ==
    [i \in 1..n |-> [student_id |-> S1, course_code |-> C1,
                     grade |-> IF i <= k THEN g1 ELSE g2]]

Transcripts ==
    { Transcript(n, k, g1, g2) :
        n \in 1..MaxTranscript, k \in 0..MaxTranscript,
        g1 \in { <<"B">>, <<"a">> }, g2 \in { <<"F">>, <<"d">> } }

GpaGradeRows == ListsUpTo(GradeRowAlphabet, MaxGrades) \cup Transcripts

InitGPA ==
    /\ Constructed
    /\ \E g \in GpaGradeRows :
        fetched = [f \in DataFiles |->
                    CASE f = "students"   -> Resolved(StudentRowsSample)
                      [] f = "courses"    -> Resolved(CourseRowsSample)
                      [] f = "grades"     -> Resolved(g)
                      [] f = "attendance" -> Resolved(<<>>)]

NextGPA ==
    \/ LoadAllResume
    \/ ClickRow

SpecGPA == InitGPA /\ [][NextGPA]_vars

\* the grade letters the points table knows, in either case
RecognizedLetters ==
    { <<"A">>, <<"B">>, <<"C">>, <<"D">>, <<"F">>,
      <<"a">>, <<"b">>, <<"c">>, <<"d">>, <<"f">> }

\* the loaded grade records of student id that carry a recognized letter
RecognizedOf(id) ==
    { j \in DOMAIN grades : grades[j].student_id = id /\ grades[j].grade \in RecognizedLetters }

\* the loaded grades with every recognized letter put in the other case
OtherCase(letter) ==
    CASE letter \in { <<"A">>, <<"a">> } -> IF letter = <<"A">> THEN <<"a">> ELSE <<"A">>
      [] letter \in { <<"B">>, <<"b">> } -> IF letter = <<"B">> THEN <<"b">> ELSE <<"B">>
      [] letter \in { <<"C">>, <<"c">> } -> IF letter = <<"C">> THEN <<"c">> ELSE <<"C">>
      [] letter \in { <<"D">>, <<"d">> } -> IF letter = <<"D">> THEN <<"d">> ELSE <<"D">>
      [] letter \in { <<"F">>, <<"f">> } -> IF letter = <<"F">> THEN <<"f">> ELSE <<"F">>

GradesInOtherCase ==
    [j \in DOMAIN grades |->
        IF grades[j].grade \in RecognizedLetters
        THEN [grades[j] EXCEPT !.grade = OtherCase(grades[j].grade)]
        ELSE grades[j]]

\* every GPA the page shows: <<student_id, gpa>> of the table rows and of the detail panel
ShownGpas ==
    { <<filteredStudents[i].student_id, tableGpa[i]>> : i \in DOMAIN tableGpa }
    \cup { <<detailView[i].student_id, detailView[i].gpa>> : i \in DOMAIN detailView }

(***************************************************************************)
(* C4 -- GPA null-versus-zero: every GPA the page shows is null exactly    *)
(* when the student has no grade record with a letter among A, B, C, D, F  *)
(* in either case; a student whose recognized grades are all F gets the    *)
(* number 0; and the same grades in the other letter case give the same    *)
(* GPA.                                                                    *)
(***************************************************************************)
C4_GpaNullIffNoRecognizedGrade ==
    \A p \in ShownGpas :
        /\ p[2].isNull <=> RecognizedOf(p[1]) = {}
        /\ ( /\ RecognizedOf(p[1]) # {}
             /\ \A j \in RecognizedOf(p[1]) : grades[j].grade \in { <<"F">>, <<"f">> } )
           => p[2] = [isNull |-> FALSE, hundredths |-> 0]
        /\ p[2] = calcGPAForStudent(p[1], GradesInOtherCase)

\* one student with only unrecognized grades (null), one with only F (zero),
\* and the second one selected
C4_Witness ==
    /\ \E p \in ShownGpas :
        p[2].isNull /\ \E j \in DOMAIN grades : grades[j].student_id = p[1]
    /\ \E p \in ShownGpas :
        ~p[2].isNull /\ p[2].hundredths = 0 /\ RecognizedOf(p[1]) # {}
    /\ detailView # <<>>
    /\ ~detailView[1].gpa.isNull

\* points of a recognized letter, as the specification's table gives them
PointsOfLetter(letter) ==
    CASE letter \in { <<"A">>, <<"a">> } -> 4
      [] letter \in { <<"B">>, <<"b">> } -> 3
      [] letter \in { <<"C">>, <<"c">> } -> 2
      [] letter \in { <<"D">>, <<"d">> } -> 1
      [] letter \in { <<"F">>, <<"f">> } -> 0

PointsSum(id) ==
    LET n(v) == Cardinality({ j \in RecognizedOf(id) : PointsOfLetter(grades[j].grade) = v })
    IN  4 * n(4) + 3 * n(3) + 2 * n(2) + n(1)

\* 100 * t / c to the nearest integer, halves away from zero (t, c >= 0)
RoundHalfAway(t, c) == (200 * t + c) \div (2 * c)

(***************************************************************************)
(* C5 -- GPA value: a shown GPA that is not null is the mean of the points *)
(* of the student's recognized grade records (A=4 B=3 C=2 D=1 F=0), other  *)
(* records and other students left out of sum and divisor, rounded to two  *)
(* decimals with halves away from zero, and lies between 0 and 4.          *)
(***************************************************************************)
C5_GpaIsRoundedMean ==
    \A p \in ShownGpas :
        RecognizedOf(p[1]) # {} =>
            /\ p[2].hundredths = RoundHalfAway(PointsSum(p[1]), Cardinality(RecognizedOf(p[1])))
            /\ p[2].hundredths >= 0
            /\ p[2].hundredths <= 400

(***************************************************************************)
(* SpecMajor, SpecMajorOrder: the four files have resolved; students.csv   *)
(* holds a short list of rows whose major is an ordinary name, empty,      *)
(* absent, a decimal number, or (SpecMajor only) the name of a property    *)
(* every object inherits.                                                  *)
(***************************************************************************)
MaxMajorStudents == 3

PlainMajorFields == { <<"C", "S">>, <<"M">>, <<>>, <<"7">>, <<"1", "0">> }

InheritedMajorFields ==
    { <<"c","o","n","s","t","r","u","c","t","o","r">>, <<"_","_","p","r","o","t","o","_","_">> }

MajorRowAlphabet(majors) ==
    { [student_id |-> S1, name |-> <<"A","n","n">>, major |-> m] : m \in majors }
    \cup { [student_id |-> S1, name |-> <<"A","n","n">>] }

InitStudentsOnly(studentRows) ==
    /\ Constructed
    /\ \E st \in studentRows :
        fetched = [f \in DataFiles |->
                    IF f = "students" THEN Resolved(st) ELSE Resolved(<<>>)]

NextMajor == LoadAllResume

SpecMajor ==
    /\ InitStudentsOnly(ListsUpTo(MajorRowAlphabet(PlainMajorFields \cup InheritedMajorFields),
                                  MaxMajorStudents))
    /\ [][NextMajor]_vars

SpecMajorOrder ==
    /\ InitStudentsOnly(ListsUpTo(MajorRowAlphabet(PlainMajorFields), MaxMajorStudents))
    /\ [][NextMajor]_vars

\* the group a student is counted in: the major, "Undeclared" when absent or empty
GroupOf(s) == IF s.major = Undefined \/ s.major = <<>> THEN Undeclared ELSE s.major

Groups == { GroupOf(students[i]) : i \in DOMAIN students }

RECURSIVE SumOfCounts(_, _)
SumOfCounts(data, i) ==
    IF i > Len(data) THEN 0 ELSE data[i].count.n + SumOfCounts(data, i + 1)

(***************************************************************************)
(* C6 -- Enrollment by major, counting: once the students are loaded,      *)
(* enrollmentData has one entry per distinct major (absent or empty major  *)
(* under "Undeclared"), each count is the number of students of that       *)
(* group, and the counts add up to the number of students.                 *)
(***************************************************************************)
C6_CountsByMajor ==
    loadPc = "done" =>
        /\ Len(enrollmentData) = Cardinality(Groups)
        /\ { enrollmentData[i].major : i \in DOMAIN enrollmentData } = Groups
        /\ \A i \in DOMAIN enrollmentData :
            /\ enrollmentData[i].count.type = "number"
            /\ enrollmentData[i].count.n =
                 Cardinality({ j \in DOMAIN students :
                                GroupOf(students[j]) = enrollmentData[i].major })
        /\ SumOfCounts(enrollmentData, 1) = Len(students)

\* the places of students where a group occurs for the first time
FirstSeenAt ==
    { i \in DOMAIN students : \A j \in 1..(i - 1) : GroupOf(students[j]) # GroupOf(students[i]) }

\* the groups in the order of their first occurrence in students
FirstSeenGroups ==
    [k \in 1..Cardinality(FirstSeenAt) |->
        GroupOf(students[CHOOSE i \in FirstSeenAt :
                            Cardinality({ j \in FirstSeenAt : j <= i }) = k])]

(***************************************************************************)
(* C7 -- Enrollment by major, ordering: once the students are loaded, the  *)
(* entries of enrollmentData are in the order in which each major (after   *)
(* coalescing to "Undeclared") first occurs in the student list, whatever  *)
(* the major strings are.                                                  *)
(***************************************************************************)
C7_FirstSeenOrder ==
    loadPc = "done" =>
        [i \in DOMAIN enrollmentData |-> enrollmentData[i].major] = FirstSeenGroups

(***************************************************************************)
(* SpecSearch: the four files have resolved, students.csv with a short     *)
(* list of rows; the user types into the search box and presses Clear.     *)
(***************************************************************************)
MaxSearchStudents == 2

SearchRowAlphabet ==
    { [student_id |-> S1, name |-> <<"A","n","n">>],
      [student_id |-> S2, name |-> <<"S","t","a","N">>],
      [student_id |-> S3],
      [student_id |-> <<"X">>, name |-> <<"s","1"," ","b">>] }

SearchInputs ==
    { <<" ">>, <<"\t", " ">>, <<"s">>, <<" ", "S", "1", " ">>, <<"A", "N">>, <<"1">>,
      <<"n", "\n">>, <<"z">>, <<"1", " ", "B">> }

InitSearch == InitStudentsOnly(ListsUpTo(SearchRowAlphabet, MaxSearchStudents))

NextSearch ==
    \/ LoadAllResume
    \/ \E q \in SearchInputs : SetSearch(q)
    \/ ClearSearch

SpecSearch == InitSearch /\ [][NextSearch]_vars

\* text between its first and its last character that is not white space
CoreOf(text) ==
    LET inked == { i \in DOMAIN text : text[i] \notin {" ", "\t", "\n"} }
    IN  IF inked = {} THEN <<>>
        ELSE SubSeq(text, CHOOSE i \in inked : \A j \in inked : i <= j,
                          CHOOSE i \in inked : \A j \in inked : i >= j)

SearchCore == CoreOf(search)

\* two characters equal, or the two cases of one letter
SameLetter(x, y) ==
    \/ x = y
    \/ \E k \in DOMAIN UpperLetters : {x, y} = {UpperLetters[k], LowerLetters[k]}

\* text, a string, holds core at some place, letter case aside
HoldsIgnoringCase(text, core) ==
    \E at \in 1..(Len(text) - Len(core) + 1) :
        \A k \in DOMAIN core : SameLetter(text[at + k - 1], core[k])

MatchesSearch(s) ==
    \/ HoldsIgnoringCase(s.student_id, SearchCore)
    \/ s.name # Undefined /\ HoldsIgnoringCase(s.name, SearchCore)

(***************************************************************************)
(* C8 -- Student search: filteredStudents is the students that hold the    *)
(* trimmed search text in their student_id or name, letter case aside, in  *)
(* the order of the student list; with an empty or all-blank search text   *)
(* (in particular after Clear) it is the whole student list.               *)
(***************************************************************************)
C8_FilteredStudents ==
    filteredStudents =
        IF SearchCore = <<>> THEN students ELSE SelectSeq(students, MatchesSearch)

\* a padded query in another case keeps one of two students, through the name
C8_Witness ==
    /\ Len(students) = 2
    /\ Len(filteredStudents) = 1
    /\ search # SearchCore
    /\ SearchCore # <<>>
    /\ ~HoldsIgnoringCase(filteredStudents[1].student_id, SearchCore)
    /\ toLowerCase(SearchCore) # SearchCore

(***************************************************************************)
(* SpecCourse: the four files have resolved, attendance.csv with a short   *)
(* list of rows; the user picks courses and types; a script of the page    *)
(* may assign a short grade list to window.__GRADES_FOR_APP.               *)
(***************************************************************************)
MaxAttendance == 2

MaxGlobalGrades == 2

StudentRowsThree ==
    StudentRowsSample \o << [student_id |-> S3, name |-> <<"C","y">>, major |-> <<"M">>] >>

CourseAttendanceAlphabet ==
    { [student_id |-> S1, date |-> Day, attendance_status |-> <<"P","r","e","s","e","n","t">>],
      [student_id |-> S1, date |-> Day, attendance_status |-> <<"A","b","s","e","n","t">>],
      [student_id |-> S2, date |-> Day, attendance_status |-> <<"P","r","e","s","e","n","t">>],
      [student_id |-> S2, date |-> Day, attendance_status |-> <<"L","a","t","e">>] }

GlobalGradeAlphabet ==
    { [student_id |-> S1, course_code |-> C1, grade |-> <<"A">>],
      [student_id |-> S2, course_code |-> C1, grade |-> <<"A">>],
      [student_id |-> S1, course_code |-> C2, grade |-> <<"A">>] }

InitCourse ==
    /\ Constructed
    /\ \E a \in ListsUpTo(CourseAttendanceAlphabet, MaxAttendance) :
        fetched = [f \in DataFiles |->
                    CASE f = "students"   -> Resolved(StudentRowsThree)
                      [] f = "courses"    -> Resolved(CourseRowsSample)
                      [] f = "grades"     -> Resolved(GradeRowsSample)
                      [] f = "attendance" -> Resolved(a)]

NextCourse ==
    \/ LoadAllResume
    \/ \E v \in {<<>>, C1, C2} : SelectCourse(v)
    \/ \E v \in ListsUpTo(GlobalGradeAlphabet, MaxGlobalGrades) : SetGradesForApp(v)
    \/ SetSearch(<<"s">>)
    \/ ClearSearch

SpecCourse == InitCourse /\ [][NextCourse]_vars

\* the places of the attendance list a rendered CourseAttendance v counted
CountedPlaces(v) ==
    { i \in DOMAIN v.attendance : v.attendance[i].student_id \in v.enrolledStudentIds }

(***************************************************************************)
(* C2 -- Course attendance, tally: in every rendered CourseAttendance,     *)
(* total = Present + Absent + Other is the number of attendance records    *)
(* whose student_id is in the enrolled set; the records of students not    *)
(* in the set change no count (the counts are those of the list without    *)
(* them); and an empty enrolled set gives four zeros.                      *)
(***************************************************************************)
C2_TallyOfEnrolled ==
    courseView # <<>> =>
        LET v == courseView[1]
            kept == SelectSeq(v.attendance, LAMBDA a : a.student_id \in v.enrolledStudentIds)
        IN  /\ v.attendance = attendance
            /\ v.total = v.stats.Present + v.stats.Absent + v.stats.Other
            /\ v.total = Cardinality(CountedPlaces(v))
            /\ v.stats.Present >= 0 /\ v.stats.Absent >= 0 /\ v.stats.Other >= 0
            /\ v.stats = AttendanceLoop(kept, 1, v.enrolledStudentIds,
                                        [Present |-> 0, Absent |-> 0, Other |-> 0])
            /\ v.enrolledStudentIds = {} =>
                 v.total = 0 /\ v.stats = [Present |-> 0, Absent |-> 0, Other |-> 0]

\* a rendered course with an enrolled student, one record counted and one skipped
C2_Witness ==
    /\ courseView # <<>>
    /\ courseView[1].enrolledStudentIds # {}
    /\ courseView[1].total = 1
    /\ Len(courseView[1].attendance) = 2

(***************************************************************************)
(* C9 -- Purity of the aggregators: two successive renderings of           *)
(* CourseAttendance with the same courseCode, attendance and students      *)
(* show the same result, whatever else changed in between.                 *)
(***************************************************************************)
C9_SameInputsSameOutput ==
    [][ ( /\ courseView # <<>>
          /\ courseView' # <<>>
          /\ courseView'[1].courseCode = courseView[1].courseCode
          /\ courseView'[1].attendance = courseView[1].attendance
          /\ courseView'[1].students = courseView[1].students )
        => courseView' = courseView ]_vars

(***************************************************************************)
(* SpecStatus: as SpecCourse, with attendance statuses of every shape and  *)
(* the sample grade list as the only value assigned to the window.         *)
(***************************************************************************)
MaxStatusRecords == 2

StatusFields ==
    { <<"P","r","e","s","e","n","t">>, <<" ","p","r","e","s","e","n","t"," ">>,
      <<"P","R","E","S","E","N","T","\n">>, <<"A","B","S","E","N","T">>,
      <<"\t","a","b","s","e","n","t">>, <<"t","a","r","d","y">>, <<>>, <<" ">>,
      <<"p","r","e"," ","s","e","n","t">>, <<"p","r","e","s","e","n","t","s">> }

StatusRowAlphabet ==
    { [student_id |-> S1, date |-> Day, attendance_status |-> st] : st \in StatusFields }
    \cup { [student_id |-> S1, date |-> Day],
           [student_id |-> S3, date |-> Day, attendance_status |-> <<"P","r","e","s","e","n","t">>] }

InitStatus ==
    /\ Constructed
    /\ \E a \in ListsUpTo(StatusRowAlphabet, MaxStatusRecords) :
        fetched = [f \in DataFiles |->
                    CASE f = "students"   -> Resolved(StudentRowsThree)
                      [] f = "courses"    -> Resolved(CourseRowsSample)
                      [] f = "grades"     -> Resolved(GradeRowsSample)
                      [] f = "attendance" -> Resolved(a)]

NextStatus ==
    \/ LoadAllResume
    \/ \E v \in {<<>>, C1, C2} : SelectCourse(v)
    \/ \E v \in GradesForAppSample : SetGradesForApp(v)

SpecStatus == InitStatus /\ [][NextStatus]_vars

\* x is the word w, letter case aside
IsWord(x, w) == Len(x) = Len(w) /\ \A k \in DOMAIN w : SameLetter(x[k], w[k])

\* the bucket the specification gives an attendance record
BucketOf(a) ==
    IF a.attendance_status = Undefined THEN "Other"
    ELSE IF IsWord(CoreOf(a.attendance_status), <<"p","r","e","s","e","n","t">>) THEN "Present"
    ELSE IF IsWord(CoreOf(a.attendance_status), <<"a","b","s","e","n","t">>) THEN "Absent"
    ELSE "Other"

(***************************************************************************)
(* C3 -- Course attendance, status classification: in every rendered       *)
(* CourseAttendance each bucket holds the number of attendance records of  *)
(* enrolled students whose status, white space around it and letter case   *)
(* aside, is "present" (Present), is "absent" (Absent), or is anything     *)
(* else, empty and missing included (Other).                               *)
(***************************************************************************)
C3_StatusBuckets ==
    courseView # <<>> =>
        \A b \in {"Present", "Absent", "Other"} :
            courseView[1].stats[b] =
                Cardinality({ i \in CountedPlaces(courseView[1]) :
                                BucketOf(courseView[1].attendance[i]) = b })

\* an enrolled student with a padded or upper-case "present" and a missing status
C3_Witness ==
    /\ courseView # <<>>
    /\ courseView[1].stats.Present = 1
    /\ courseView[1].stats.Other = 1
    /\ \E i \in CountedPlaces(courseView[1]) :
        /\ BucketOf(courseView[1].attendance[i]) = "Present"
        /\ courseView[1].attendance[i].attendance_status # <<"p","r","e","s","e","n","t">>
        /\ courseView[1].attendance[i].attendance_status # <<"P","r","e","s","e","n","t">>
    /\ \E i \in CountedPlaces(courseView[1]) :
        courseView[1].attendance[i].attendance_status = Undefined

====
